---- MODULE Spec2Model ----
(***************************************************************************)
(* A model of pubgrab.py: resolving an author to a CRISTIN person id,      *)
(* fetching the author's publications, and rendering them as HTML.         *)
(*                                                                         *)
(* Python strings are sequences of one-character strings, so that          *)
(* slicing, concatenation and character tests are computed as the code     *)
(* computes them.  A Python dict is a function whose DOMAIN is the set of  *)
(* keys that are present; reading a missing key raises KeyError.           *)
(***************************************************************************)
EXTENDS Integers, Sequences, FiniteSets, TLC

VARIABLES
    entry,          \* which entry point runs: "cristin_person_id" (a direct call) or "__main__"
    pc,             \* position in the running code
    author,         \* the argument of cristin_person_id / name_of_user
    cpid,           \* what cristin_person_id returned
    nameRequests,   \* the name-search requests issued so far (their name parameter)
    person,         \* cristin_person_id's local: the candidate list the name search answered with
    pubRequests,    \* the publication-listing requests issued so far (their lopenr parameter)
    response,       \* the registry's answer to the publication-listing request
    data,           \* what pubs_by returned
    data_sort,      \* the records sorted by year
    done,           \* how many records of data_sort the loop has processed
    authors,        \* the author-list string of the record processed last
    html_codes_all, \* the citations built so far
    file,           \* the output file: the sequence of strings written to it
    exc             \* the exception that ended the run, or "none"

vars == <<entry, pc, author, cpid, nameRequests, person, pubRequests, response,
          data, data_sort, done, authors, html_codes_all, file, exc>>

----------------------------------------------------------------------------
(* Bounds of the model *)

\* longest string given to cristin_person_id
MaxNameLen == 3
\* largest integer given to cristin_person_id
MaxInt == 12
\* most candidates in a name-search answer
MaxCandidates == 2
\* most records in a publication-listing answer
MaxRecords == 2

----------------------------------------------------------------------------
(* Python values *)

\* Python's None, and an int, as returned by cristin_person_id
None == [type |-> "NoneType", val |-> 0]
PyInt(n) == [type |-> "int", val |-> n]
PyStr(s) == [type |-> "str", val |-> s]

Digits == {"0", "1", "2", "3", "4", "5", "6", "7", "8", "9"}
DigitVal == ("0" :> 0) @@ ("1" :> 1) @@ ("2" :> 2) @@ ("3" :> 3) @@ ("4" :> 4) @@
            ("5" :> 5) @@ ("6" :> 6) @@ ("7" :> 7) @@ ("8" :> 8) @@ ("9" :> 9)
DigitChar == <<"0", "1", "2", "3", "4", "5", "6", "7", "8", "9">>

\* str.strip() as int() applies it: leading and trailing whitespace removed
RECURSIVE LStrip(_)
LStrip(s) == IF s # <<>> /\ Head(s) = " " THEN LStrip(Tail(s)) ELSE s
RECURSIVE RStrip(_)
RStrip(s) == IF s # <<>> /\ s[Len(s)] = " "
             THEN RStrip(SubSeq(s, 1, Len(s) - 1)) ELSE s
Strip(s) == RStrip(LStrip(s))

\* the digits part of an int literal: digits, single underscores between them
IsIntBody(b) ==
    /\ b # <<>>
    /\ b[1] \in Digits
    /\ b[Len(b)] \in Digits
    /\ \A k \in 1..Len(b) : b[k] \in Digits \cup {"_"}
    /\ \A k \in 1..(Len(b) - 1) : ~(b[k] = "_" /\ b[k + 1] = "_")

RECURSIVE IntBodyValue(_)
IntBodyValue(b) ==
    IF b = <<>> THEN 0
    ELSE IF b[Len(b)] = "_" THEN IntBodyValue(SubSeq(b, 1, Len(b) - 1))
    ELSE 10 * IntBodyValue(SubSeq(b, 1, Len(b) - 1)) + DigitVal[b[Len(b)]]

\* the text after an optional sign
IntUnsigned(s) == IF s # <<>> /\ Head(s) \in {"-", "+"} THEN Tail(s) ELSE s

\* int(s) raises ValueError unless this holds
IntParses(s) == IsIntBody(IntUnsigned(Strip(s)))

\* int(s) for a string that parses
IntOfStr(s) ==
    LET t == Strip(s)
        v == IntBodyValue(IntUnsigned(t))
    IN  IF t # <<>> /\ Head(t) = "-" THEN 0 - v ELSE v

\* str(n) for an int
RECURSIVE NatToStr(_)
NatToStr(n) == IF n < 10 THEN <<DigitChar[n + 1]>>
               ELSE NatToStr(n \div 10) \o <<DigitChar[(n % 10) + 1]>>
IntToStr(n) == IF n < 0 THEN <<"-">> \o NatToStr(0 - n) ELSE NatToStr(n)

----------------------------------------------------------------------------
(* The name search *)

\* person ids the registry hands out
PersonIds == {22311, 317719}

\* the list of Seq(S) of length at most n
SeqsUpTo(S, n) == UNION {[1..k -> S] : k \in 0..n}

\* a candidate of the name search
Candidates == {[cristin_person_id |-> p] : p \in PersonIds}

\* what requests.get(url).json() can do on the name search: raise, or a candidate list
SearchOutcomes ==
    {[raised |-> TRUE, json |-> <<>>]} \cup
    {[raised |-> FALSE, json |-> c] : c \in SeqsUpTo(Candidates, MaxCandidates)}

\* the local variable person: unassigned until the name search has answered
Unassigned == [assigned |-> FALSE, val |-> <<>>]
Assigned(l) == [assigned |-> TRUE, val |-> l]

\* cristin_person_id without the try: the name search is always made
cristin_person_id_always_searches(a, net) ==
    IF net.raised
    THEN [raised |-> TRUE, value |-> None, requests |-> <<a>>, person |-> Unassigned]
    ELSE [raised |-> FALSE,
          value |-> IF net.json # <<>> THEN PyInt(net.json[1].cristin_person_id) ELSE None,
          requests |-> <<a>>, person |-> Assigned(net.json)]

\* cristin_person_id without the test of person: person[0] of no candidate raises
cristin_person_id_unchecked(a, net) ==
    IF a.type = "int"
    THEN [raised |-> FALSE, value |-> a, requests |-> <<>>, person |-> Unassigned]
    ELSE IF IntParses(a.val)
    THEN [raised |-> FALSE, value |-> PyInt(IntOfStr(a.val)), requests |-> <<>>,
          person |-> Unassigned]
    ELSE IF net.raised
    THEN [raised |-> TRUE, value |-> None, requests |-> <<a>>, person |-> Unassigned]
    ELSE IF net.json = <<>>
    THEN [raised |-> TRUE, value |-> None, requests |-> <<a>>, person |-> Assigned(net.json)]
    ELSE [raised |-> FALSE, value |-> PyInt(net.json[1].cristin_person_id),
          requests |-> <<a>>, person |-> Assigned(net.json)]

\* cristin_person_id(author), with net the outcome of the name search should it be made
cristin_person_id(a, net) ==
    IF a.type = "int"
    THEN [raised |-> FALSE, value |-> a, requests |-> <<>>, person |-> Unassigned]
    ELSE IF IntParses(a.val)
    THEN [raised |-> FALSE, value |-> PyInt(IntOfStr(a.val)), requests |-> <<>>,
          person |-> Unassigned]
    ELSE IF net.raised
    THEN [raised |-> TRUE, value |-> None, requests |-> <<a>>, person |-> Unassigned]
    ELSE [raised |-> FALSE,
          value |-> IF net.json # <<>> THEN PyInt(net.json[1].cristin_person_id) ELSE None,
          requests |-> <<a>>, person |-> Assigned(net.json)]

----------------------------------------------------------------------------
(* Publication records *)

\* a dict with the one key k; Absent is the dict without it
Absent == <<>>
Key(k, v) == k :> v

PyDict(d) == [type |-> "dict", val |-> d]
PyList(l) == [type |-> "list", val |-> l]

\* two authors as the registry describes them
AuthorA == [etternavn |-> <<"V", "i", "k">>,
            fornavn |-> <<"J", "o", "n", " ", "O", "l", "a", "v">>]
AuthorB == [etternavn |-> <<"L", "i">>,
            fornavn |-> <<"d", "a", "g", " ", "I">>]

\* the field values of the modelled answers
Year2014 == <<"2", "0", "1", "4">>
Year2010 == <<"2", "0", "1", "0">>
Year2009 == <<"2", "0", "0", "9">>
TitleT == <<"T">>
TitleU == <<"U">>
JournalJ == <<"J">>
ArticleNr == <<"e", "9">>
Volume == <<"5", "3">>
Doi == <<"1", "0", ".", "1", "/", "x">>

\* the values a field takes in the modelled answers; Absent stands for a missing key
YearFields == {Key("ar", Year2014), Key("ar", Year2010), Key("ar", Year2009), Absent}
TitleFields == {Key("tittel", TitleT), Key("tittel", TitleU), Absent}
PersonFields == {Key("person", PyDict(AuthorA)), Key("person", PyList(<<AuthorA>>)),
                 Key("person", PyList(<<AuthorA, AuthorB>>)), Key("person", PyList(<<>>)),
                 Absent}
ArticleNrFields == {Key("artikkelnr", ArticleNr), Absent}
VolumeFields == {Key("volum", Volume), Absent}
DoiFields == {Key("doi", Doi), Absent}

\* the field values of the reference record, which has every field
BaseYear == Key("ar", Year2014)
BaseTitle == Key("tittel", TitleT)
BasePerson == Key("person", PyDict(AuthorA))
BaseJournal == Key("tidsskrift", Key("navn", JournalJ))

\* a record of the publication-listing answer
Record(ar, tittel, pers, kategoridata) ==
    [fellesdata |-> ar @@ tittel @@ pers, kategoridata |-> kategoridata]

\* the category data of a journal article
JournalArticle(tidsskrift, artikkelnr, volum, doi) ==
    Key("tidsskriftsartikkel", tidsskrift @@ artikkelnr @@ volum @@ doi)

FullArticle == JournalArticle(BaseJournal, Key("artikkelnr", ArticleNr),
                              Key("volum", Volume), Key("doi", Doi))

\* the records of the modelled answers: the reference record with one group of
\* fields varied at a time
Records ==
    {Record(y, BaseTitle, BasePerson, FullArticle) : y \in YearFields} \cup
    {Record(BaseYear, t, BasePerson, FullArticle) : t \in TitleFields} \cup
    {Record(BaseYear, BaseTitle, p, FullArticle) : p \in PersonFields} \cup
    {Record(BaseYear, BaseTitle, BasePerson, JournalArticle(BaseJournal, a, v, d)) :
        a \in ArticleNrFields, v \in VolumeFields, d \in DoiFields} \cup
    {Record(BaseYear, BaseTitle, BasePerson, JournalArticle(Absent, Absent, Absent, Absent)),
     Record(BaseYear, BaseTitle, BasePerson, Key("bokRapport", Absent)),
     Record(Absent, BaseTitle, BasePerson, Key("bokRapport", Absent)),
     Record(BaseYear, BaseTitle, BasePerson, Absent)}

----------------------------------------------------------------------------
(* Sorting by year *)

\* d[k] raises KeyError unless this holds
Has(d, k) == k \in DOMAIN d

\* the order of characters: digits by value, as their code points are
Ord(c) == IF c \in Digits THEN DigitVal[c] ELSE 10

\* a < b for Python strings
RECURSIVE StrLess(_, _)
StrLess(a, b) ==
    IF b = <<>> THEN FALSE
    ELSE IF a = <<>> THEN TRUE
    ELSE IF Head(a) = Head(b) THEN StrLess(Tail(a), Tail(b))
    ELSE Ord(Head(a)) < Ord(Head(b))

\* the sort key: lambda k: k['fellesdata']['ar']
SortKey(r) == r.fellesdata["ar"]

\* r put into the descending list s behind every record whose key is not smaller
RECURSIVE InsertDescending(_, _)
InsertDescending(s, r) ==
    IF s = <<>> THEN <<r>>
    ELSE IF StrLess(SortKey(Head(s)), SortKey(r)) THEN <<r>> \o s
    ELSE <<Head(s)>> \o InsertDescending(Tail(s), r)

\* r put into the ascending list s behind every record whose key is not larger
RECURSIVE InsertAscending(_, _)
InsertAscending(s, r) ==
    IF s = <<>> THEN <<r>>
    ELSE IF StrLess(SortKey(r), SortKey(Head(s))) THEN <<r>> \o s
    ELSE <<Head(s)>> \o InsertAscending(Tail(s), r)

RECURSIVE SortAscending(_)
SortAscending(l) ==
    IF l = <<>> THEN <<>>
    ELSE InsertAscending(SortAscending(SubSeq(l, 1, Len(l) - 1)), l[Len(l)])

Reversed(l) == [k \in 1..Len(l) |-> l[Len(l) + 1 - k]]

\* sorted(l, key=...)[::-1]: descending, but records of one year change places
SortedThenReversed(l) == Reversed(SortAscending(l))

\* sorted(l, key=lambda k: k['fellesdata']['ar'], reverse=True): a stable sort
RECURSIVE SortedByYearReverse(_)
SortedByYearReverse(l) ==
    IF l = <<>> THEN <<>>
    ELSE InsertDescending(SortedByYearReverse(SubSeq(l, 1, Len(l) - 1)), l[Len(l)])

----------------------------------------------------------------------------
(* Formatting one record *)

UpperLetters == {"A", "B", "C", "D", "E", "F", "G", "H", "I", "J", "K", "L", "M",
                 "N", "O", "P", "Q", "R", "S", "T", "U", "V", "W", "X", "Y", "Z"}

\* c.isupper()
IsUpper(c) == c \in UpperLetters

\* ''.join(c for c in Short_firstname if c.isupper())
Uppercase_firstname(fornavn) == SelectSeq(fornavn, IsUpper)

\* the loop over a list of persons: each name followed by ', '
RECURSIVE JoinedAuthors(_)
JoinedAuthors(l) ==
    IF l = <<>> THEN <<>>
    ELSE JoinedAuthors(SubSeq(l, 1, Len(l) - 1)) \o
         l[Len(l)].etternavn \o <<" ">> \o Uppercase_firstname(l[Len(l)].fornavn) \o
         <<",", " ">>

\* s[:-n]
DropLast(s, n) == SubSeq(s, 1, Len(s) - n)

\* the author list of a list of persons with one character cut instead of two
AuthorsOfListCutOne(l) == DropLast(JoinedAuthors(l), 1)

\* the author list of a list of persons
AuthorsOfList(l) == DropLast(JoinedAuthors(l), 2)

\* the author list of a single person
AuthorsOfDict(p) == p.etternavn \o <<" ">> \o Uppercase_firstname(p.fornavn)

\* the author list of a record that has the person field
AuthorsOf(p) ==
    IF p.type = "list" THEN AuthorsOfList(p.val)
    ELSE IF p.type = "dict" THEN AuthorsOfDict(p.val)
    ELSE <<>>

\* d[k] with the text before and behind it, or '' on KeyError
Optional(d, k, before, behind) == IF Has(d, k) THEN before \o d[k] \o behind ELSE <<>>

EmOpen == <<"<", "e", "m", ">">>
EmClose == <<"<", "/", "e", "m", ">">>
StrongOpen == <<"<", "s", "t", "r", "o", "n", "g", ">", "(">>
StrongClose == <<")", "<", "/", "s", "t", "r", "o", "n", "g", ">">>
DoiPrefix == <<"h", "t", "t", "p", ":", "/", "/", "d", "x", ".", "d", "o", "i", ".",
               "o", "r", "g", "/">>
POpen == <<"<", "p", ">", " ">>
PClose == <<"<", "/", "p", ">">>

\* HTML_string with the year and the title in each other's place
HTML_string_title_first(auth, f, t) ==
    POpen \o auth \o <<" ", "(">> \o f["tittel"] \o <<")", ".", " ">> \o f["ar"] \o <<" ">> \o
    EmOpen \o t["tidsskrift"]["navn"] \o EmClose \o <<" ">> \o
    Optional(t, "volum", StrongOpen, StrongClose) \o <<" ">> \o
    Optional(t, "artikkelnr", <<>>, <<>>) \o <<" ">> \o
    Optional(t, "doi", DoiPrefix, <<>>) \o PClose

\* HTML_string of a journal article: auth the author list, f the record's
\* fellesdata and t its tidsskriftsartikkel, the required keys being present
HTML_string(auth, f, t) ==
    POpen \o auth \o <<" ", "(">> \o f["ar"] \o <<")", ".", " ">> \o f["tittel"] \o <<" ">> \o
    EmOpen \o t["tidsskrift"]["navn"] \o EmClose \o <<" ">> \o
    Optional(t, "volum", StrongOpen, StrongClose) \o <<" ">> \o
    Optional(t, "artikkelnr", <<>>, <<>>) \o <<" ">> \o
    Optional(t, "doi", DoiPrefix, <<>>) \o PClose

\* whether the body of the loop raises KeyError on record r
FormatRaises(r) ==
    \/ ~Has(r.fellesdata, "person")
    \/ /\ Has(r.kategoridata, "tidsskriftsartikkel")
       /\ \/ ~Has(r.fellesdata, "tittel")
          \/ ~Has(r.fellesdata, "ar")
          \/ ~Has(r.kategoridata["tidsskriftsartikkel"], "tidsskrift")
          \/ ~Has(r.kategoridata["tidsskriftsartikkel"]["tidsskrift"], "navn")

\* the citations a record that does not raise appends to html_codes_all
CitationsOf(r) ==
    IF Has(r.kategoridata, "tidsskriftsartikkel")
    THEN <<HTML_string(AuthorsOf(r.fellesdata["person"]), r.fellesdata,
                       r.kategoridata["tidsskriftsartikkel"])>>
    ELSE <<>>

----------------------------------------------------------------------------
(* The publication listing *)

\* the answers to the publication-listing request.  raised: requests.get itself
\* raises; json: the body parses as JSON; doc: the parsed body
NoResponse == [raised |-> FALSE, status |-> 0, json |-> FALSE, doc |-> Absent]
Unreachable == [raised |-> TRUE, status |-> 0, json |-> FALSE, doc |-> Absent]

\* a success answers with any record list, or with a body that lacks the list
SuccessResponses ==
    {[raised |-> FALSE, status |-> 200, json |-> TRUE, doc |-> d] :
        d \in {Absent} \cup
              {Key("forskningsresultat", l) : l \in SeqsUpTo(Records, MaxRecords)}}

\* a non-success status comes with an error page, or with JSON that holds no record
FailureResponses ==
    {[raised |-> FALSE, status |-> s, json |-> j.json, doc |-> j.doc] :
        s \in {404, 500},
        j \in {[json |-> FALSE, doc |-> Absent], [json |-> TRUE, doc |-> Absent],
               [json |-> TRUE, doc |-> Key("forskningsresultat", <<>>)]}}

Responses == {Unreachable} \cup SuccessResponses \cup FailureResponses

\* lines 167-171 of pubs_by: requests.get(url).json(), returned as it is
pubs_by(id, resp) ==
    IF resp.raised THEN [raised |-> TRUE, exc |-> "RequestException", value |-> Absent]
    ELSE IF ~resp.json THEN [raised |-> TRUE, exc |-> "ValueError", value |-> Absent]
    ELSE [raised |-> FALSE, exc |-> "none", value |-> resp.doc]

----------------------------------------------------------------------------
(* The output file *)

html_str_start == <<"\n", "    <!DOCTYPE html>\n", "    <HTML>\n", "        <head>\n",
                    "            <meta charset=\"utf-8\">\n", "        </head>\n", "\n",
                    "        <body>\n", "            <h1>References</h1>\n", "    ">>
html_str_end == <<"\n", "        </body>\n", "    </HTML>\n", "    ">>

name_of_user == <<"J", "o", "n", " ", "O", "l", "a", "v", " ", "V", "i", "k">>

NoFile == [exists |-> FALSE, name |-> <<>>, writes |-> <<>>]

\* the strings written to the file, one per myFile.write
Writes(codes) ==
    <<html_str_start>> \o
    [k \in 1..Len(codes) |-> <<"\t", "\t">> \o codes[k] \o <<"\n">>] \o
    <<html_str_end>>

----------------------------------------------------------------------------
(* The program *)

\* the strings and integers cristin_person_id is called with
NameChars == {"1", "2", "-", " ", "_", "J"}
ResolverInputs ==
    {PyInt(n) : n \in (0 - MaxInt)..MaxInt} \cup
    {PyStr(s) : s \in SeqsUpTo(NameChars, MaxNameLen)}

Init ==
    /\ entry \in {"cristin_person_id", "__main__"}
    /\ author \in IF entry = "cristin_person_id" THEN ResolverInputs
                  ELSE {PyStr(name_of_user)}
    /\ pc = "start"
    /\ cpid = None
    /\ nameRequests = <<>>
    /\ person = Unassigned
    /\ pubRequests = <<>>
    /\ response = NoResponse
    /\ data = Absent
    /\ data_sort = <<>>
    /\ done = 0
    /\ authors = <<>>
    /\ html_codes_all = <<>>
    /\ file = NoFile
    /\ exc = "none"

\* a call of cristin_person_id(author), as the doctests make it
CallCristinPersonId ==
    /\ entry = "cristin_person_id"
    /\ pc = "start"
    /\ \E net \in SearchOutcomes :
          LET r == cristin_person_id(author, net)
          IN  /\ pc' = IF r.raised THEN "raised" ELSE "returned"
              /\ exc' = IF r.raised THEN "RequestException" ELSE "none"
              /\ cpid' = r.value
              /\ nameRequests' = nameRequests \o r.requests
              /\ person' = r.person
    /\ UNCHANGED <<entry, author, pubRequests, response, data, data_sort, done,
                   authors, html_codes_all, file>>

\* line 192 and line 166: __main__ calls pubs_by, which calls cristin_person_id
PubsByResolve ==
    /\ entry = "__main__"
    /\ pc = "start"
    /\ \E net \in SearchOutcomes :
          LET r == cristin_person_id(author, net)
          IN  /\ pc' = IF r.raised THEN "raised" ELSE "resolved"
              /\ exc' = IF r.raised THEN "RequestException" ELSE "none"
              /\ cpid' = r.value
              /\ nameRequests' = nameRequests \o r.requests
              /\ person' = r.person
    /\ UNCHANGED <<entry, author, pubRequests, response, data, data_sort, done,
                   authors, html_codes_all, file>>

\* lines 167-171: pubs_by requests the listing of cpid, whatever cpid is,
\* and returns the parsed answer
PubsByFetch ==
    /\ pc = "resolved"
    /\ \E resp \in Responses :
          LET r == pubs_by(cpid, resp)
          IN  /\ response' = resp
              /\ pubRequests' = Append(pubRequests, cpid)
              /\ pc' = IF r.raised THEN "raised" ELSE "fetched"
              /\ exc' = r.exc
              /\ data' = r.value
    /\ person' = Unassigned
    /\ UNCHANGED <<entry, author, cpid, nameRequests, data_sort, done, authors,
                   html_codes_all, file>>

\* line 199: the records of the answer, sorted by year
SortRecords ==
    /\ pc = "fetched"
    /\ IF /\ Has(data, "forskningsresultat")
          /\ \A k \in 1..Len(data["forskningsresultat"]) :
                Has(data["forskningsresultat"][k].fellesdata, "ar")
       THEN /\ data_sort' = SortedByYearReverse(data["forskningsresultat"])
            /\ pc' = "loop"
            /\ exc' = exc
       ELSE /\ pc' = "raised"
            /\ exc' = "KeyError"
            /\ data_sort' = data_sort
    /\ UNCHANGED <<entry, author, cpid, nameRequests, person, pubRequests, response,
                   data, done, authors, html_codes_all, file>>

\* lines 201-248: one turn of the loop over data_sort
FormatRecord ==
    /\ pc = "loop"
    /\ done < Len(data_sort)
    /\ LET i == data_sort[done + 1]
       IN  /\ authors' = IF Has(i.fellesdata, "person")
                         THEN AuthorsOf(i.fellesdata["person"]) ELSE <<>>
           /\ IF FormatRaises(i)
              THEN /\ pc' = "raised"
                   /\ exc' = "KeyError"
                   /\ UNCHANGED <<done, html_codes_all>>
              ELSE /\ done' = done + 1
                   /\ html_codes_all' = html_codes_all \o CitationsOf(i)
                   /\ UNCHANGED <<pc, exc>>
    /\ UNCHANGED <<entry, author, cpid, nameRequests, person, pubRequests, response,
                   data, data_sort, file>>

\* lines 279-284: the file is written once the loop has ended
WriteFile ==
    /\ pc = "loop"
    /\ done = Len(data_sort)
    /\ file' = [exists |-> TRUE, name |-> author.val \o <<".", "h", "t", "m", "l">>,
                writes |-> Writes(html_codes_all)]
    /\ pc' = "written"
    /\ UNCHANGED <<entry, author, cpid, nameRequests, person, pubRequests, response,
                   data, data_sort, done, authors, html_codes_all, exc>>

Next ==
    \/ CallCristinPersonId
    \/ PubsByResolve
    \/ PubsByFetch
    \/ SortRecords
    \/ FormatRecord
    \/ WriteFile

Spec == Init /\ [][Next]_vars

----------------------------------------------------------------------------
(* Properties of cristin_person_id *)

\* the call of cristin_person_id has ended, in either entry point
Resolved == pc # "start"

\* a decimal numeral read by place value: each digit times its power of ten
RECURSIVE Pow10(_)
Pow10(n) == IF n = 0 THEN 1 ELSE 10 * Pow10(n - 1)
IsDigit(c) == c \in Digits
RECURSIVE PlaceSum(_, _)
PlaceSum(d, k) ==
    IF k > Len(d) THEN 0 ELSE DigitVal[d[k]] * Pow10(Len(d) - k) + PlaceSum(d, k + 1)
DecimalValue(s) ==
    LET v == PlaceSum(SelectSeq(s, IsDigit), 1)
    IN  IF \E k \in 1..Len(s) : s[k] = "-" THEN 0 - v ELSE v

\* C4: when cristin_person_id is given an integer, or a string that parses as
\* one, it returns that integer (for the numeral of n, n itself) and no name
\* search is requested.
C4_NumericInputNeedsNoSearch ==
    Resolved =>
        /\ author.type = "int" =>
              pc # "raised" /\ cpid = author /\ nameRequests = <<>>
        /\ (author.type = "str" /\ IntParses(author.val)) =>
              /\ pc # "raised"
              /\ cpid = PyInt(DecimalValue(author.val))
              /\ nameRequests = <<>>
        /\ \A n \in (0 - MaxInt)..MaxInt :
              (author.type = "str" /\ author.val = IntToStr(n)) =>
                  cpid = PyInt(n) /\ nameRequests = <<>>

\* cristin_person_id has returned the value of a numeral with a sign and two digits
C4_Witness ==
    /\ entry = "cristin_person_id"
    /\ pc = "returned"
    /\ author = PyStr(<<"-", "1", "2">>)
    /\ cpid = PyInt(0 - 12)
    /\ nameRequests = <<>>

\* C5: when the name is not numeric and the name search answers, an empty
\* answer makes cristin_person_id return None without raising, and any other
\* answer makes it return the person id of the first candidate; the search
\* was requested once, for that name.
C5_SearchResultDecides ==
    (Resolved /\ person.assigned) =>
        /\ pc # "raised"
        /\ nameRequests = <<author>>
        /\ person.val = <<>> => cpid = None
        /\ person.val # <<>> => cpid = PyInt(person.val[1].cristin_person_id)

\* the search found nobody for a name, and cristin_person_id returned None
C5_WitnessNotFound ==
    /\ pc = "returned"
    /\ author = PyStr(<<"J", " ", "J">>)
    /\ person = Assigned(<<>>)
    /\ cpid = None

----------------------------------------------------------------------------
(* Properties of the run of __main__ *)

\* C1: when the name search finds no candidate, no publication listing is
\* requested and no document is written.
C1_NotFoundAborts ==
    (entry = "__main__" /\ pc # "start" /\ nameRequests # <<>> /\ cpid = None) =>
        pubRequests = <<>> /\ ~file.exists

\* the publication-listing request failed: no answer, or a non-success status
FetchFailed == pubRequests # <<>> /\ (response.raised \/ response.status # 200)

\* C2: when the publication-listing request fails or is answered with a
\* non-success status, the run ends in an exception: pubs_by returns no
\* document and no file is written.
C2_FailedFetchRaises ==
    (FetchFailed /\ cpid # None) => (pc = "raised" /\ data = Absent /\ ~file.exists)

\* the records pubs_by returned, when it returned a record list
Fetched == pc \in {"fetched", "loop", "written"} \/ (pc = "raised" /\ exc = "KeyError")
HasRecords == Fetched /\ Has(data, "forskningsresultat")
FetchedRecords == data["forskningsresultat"]

HasYear(r) == Has(r.fellesdata, "ar")
HasTitle(r) == Has(r.fellesdata, "tittel")
HasPerson(r) == Has(r.fellesdata, "person")
IsArticle(r) == Has(r.kategoridata, "tidsskriftsartikkel")
Article(r) == r.kategoridata["tidsskriftsartikkel"]
HasJournal(r) == Has(Article(r), "tidsskrift") /\ Has(Article(r)["tidsskrift"], "navn")

\* a journal-article record that lacks nothing the citation needs
WellFormedArticle(r) ==
    IsArticle(r) /\ HasYear(r) /\ HasTitle(r) /\ HasPerson(r) /\ HasJournal(r)

\* a record that lacks a required common field
LacksCommonField(r) == ~HasYear(r) \/ ~HasTitle(r)

\* how many records of l are well-formed journal articles, and how many are
\* journal articles at all
CountWellFormed(l) == Cardinality({k \in 1..Len(l) : WellFormedArticle(l[k])})
CountArticles(l) == Cardinality({k \in 1..Len(l) : IsArticle(l[k])})

\* the run has ended
Ended == pc \in {"written", "raised"}

\* C3: a record that lacks the title or the year is skipped on its own: the
\* run raises nothing, the document is written, and it holds one paragraph
\* for each well-formed journal article.  (Stated for answers whose other
\* records lack nothing.)
C3_MalformedRecordIsSkipped ==
    (/\ HasRecords
     /\ cpid # None
     /\ Ended
     /\ \E k \in 1..Len(FetchedRecords) : LacksCommonField(FetchedRecords[k])
     /\ \A k \in 1..Len(FetchedRecords) :
           LacksCommonField(FetchedRecords[k]) \/
           (HasPerson(FetchedRecords[k]) /\
            (IsArticle(FetchedRecords[k]) => HasJournal(FetchedRecords[k]))))
    => /\ pc = "written"
       /\ file.exists
       /\ Len(file.writes) = 2 + CountWellFormed(FetchedRecords)

\* C9: records of unrecognized categories add no citation and raise nothing,
\* and each journal-article record adds one, so that the document holds as
\* many paragraphs as there are journal-article records.  (Stated for records
\* that have all the common fields: year, title and authors.)
C9_OneParagraphPerArticle ==
    (/\ HasRecords
     /\ cpid # None
     /\ Ended
     /\ \A k \in 1..Len(FetchedRecords) :
           /\ HasYear(FetchedRecords[k])
           /\ HasTitle(FetchedRecords[k])
           /\ HasPerson(FetchedRecords[k]))
    => /\ pc = "written"
       /\ Len(file.writes) = 2 + CountArticles(FetchedRecords)

----------------------------------------------------------------------------
(* Properties of the order of the records *)

\* the loop runs, or has run, over data_sort
Sorted == pc \in {"loop", "written"} \/ (pc = "raised" /\ data_sort # <<>>)

\* the year of a record as a number
YearOf(r) == DecimalValue(r.fellesdata["ar"])

\* the one-to-one maps of 1..n onto itself
OrderingsOf(n) == {f \in [1..n -> 1..n] : \A j, k \in 1..n : f[j] = f[k] => j = k}

\* s is l put in the order f, which keeps records of the same year in the
\* order they have in l
StableOrder(s, l, f) ==
    /\ \A k \in 1..Len(l) : s[k] = l[f[k]]
    /\ \A j, k \in 1..Len(l) :
          (j < k /\ YearOf(s[j]) = YearOf(s[k])) => f[j] < f[k]

\* C6: the records are processed in the stable descending order of their
\* years: data_sort holds the fetched records, the years never increase from
\* one record to the next, and records of the same year keep the order the
\* registry gave them; the citations follow that order.
C6_StableDescendingByYear ==
    Sorted =>
        /\ Len(data_sort) = Len(FetchedRecords)
        /\ \A k \in 1..(Len(data_sort) - 1) :
              YearOf(data_sort[k]) >= YearOf(data_sort[k + 1])
        /\ \E f \in OrderingsOf(Len(FetchedRecords)) :
              StableOrder(data_sort, FetchedRecords, f)
        /\ \A j, k \in 1..Len(data_sort) :
              (/\ k <= done
               /\ YearOf(data_sort[j]) > YearOf(data_sort[k])
               /\ IsArticle(data_sort[j])
               /\ IsArticle(data_sort[k]))
              => \E m, n \in 1..Len(html_codes_all) :
                    /\ m < n
                    /\ html_codes_all[m] = CitationsOf(data_sort[j])[1]
                    /\ html_codes_all[n] = CitationsOf(data_sort[k])[1]

\* a record of 2010 fetched before a record of 2014 has been written behind it
C6_Witness ==
    /\ pc = "written"
    /\ Len(FetchedRecords) = 2
    /\ FetchedRecords[1] = Record(Key("ar", Year2010), BaseTitle, BasePerson, FullArticle)
    /\ FetchedRecords[2] = Record(BaseYear, BaseTitle, BasePerson, FullArticle)
    /\ data_sort = <<FetchedRecords[2], FetchedRecords[1]>>
    /\ file.writes[2] = <<"\t", "\t">> \o CitationsOf(FetchedRecords[2])[1] \o <<"\n">>
    /\ file.writes[3] = <<"\t", "\t">> \o CitationsOf(FetchedRecords[1])[1] \o <<"\n">>

----------------------------------------------------------------------------
(* Properties of the citation of one record *)

\* the loop has just processed a record, which added a citation
Formatted == pc \in {"loop", "written"} /\ done > 0 /\ IsArticle(data_sort[done])
LastRecord == data_sort[done]
LastCitation == html_codes_all[Len(html_codes_all)]

\* sub occurs in s at position k
OccursAt(s, sub, k) == k + Len(sub) - 1 <= Len(s) /\ SubSeq(s, k, k + Len(sub) - 1) = sub
Occurrences(s, sub) == {k \in 1..Len(s) : OccursAt(s, sub, k)}
Contains(s, sub) == Occurrences(s, sub) # {}

\* the first position from k on where sub occurs in s, or 0
FirstFrom(s, sub, k) ==
    LET at == {j \in k..Len(s) : OccursAt(s, sub, j)}
    IN  IF at = {} THEN 0 ELSE CHOOSE j \in at : \A i \in at : j <= i

\* the parts occur in s one behind the other, from position k on
RECURSIVE InOrderFrom(_, _, _)
InOrderFrom(s, parts, k) ==
    IF parts = <<>> THEN TRUE
    ELSE LET at == FirstFrom(s, Head(parts), k)
         IN  at # 0 /\ InOrderFrom(s, Tail(parts), at + Len(Head(parts)))

\* C7: the citation of a journal article without a volume holds no volume
\* markup, no parenthesis but the pair around the year, and no two spaces in
\* a row.
C7_NoVolumeNoArtifacts ==
    (Formatted /\ ~Has(Article(LastRecord), "volum")) =>
        /\ ~Contains(LastCitation, <<"s", "t", "r", "o", "n", "g">>)
        /\ Cardinality(Occurrences(LastCitation, <<"(">>)) = 1
        /\ Cardinality(Occurrences(LastCitation, <<")">>)) = 1
        /\ ~Contains(LastCitation, <<" ", " ">>)

\* the uppercase letters of a given name, taken one at a time from the front
RECURSIVE Initials(_)
Initials(n) ==
    IF n = <<>> THEN <<>>
    ELSE (IF Head(n) \in UpperLetters THEN <<Head(n)>> ELSE <<>>) \o Initials(Tail(n))
SurnameAndInitials(a) == a.etternavn \o <<" ">> \o Initials(a.fornavn)

\* the loop has just computed the author list of a record
AuthorsComputed == pc \in {"loop", "written"} /\ done > 0

\* C8: a single author structure A and the one-element list [A] give the
\* same author list: the surname, a space and the uppercase letters of the
\* given name, with no separator behind.
C8_SingleAuthorEitherShape ==
    AuthorsComputed =>
        LET p == LastRecord.fellesdata["person"]
        IN  /\ p.type = "dict" =>
                  /\ authors = AuthorsOf(PyList(<<p.val>>))
                  /\ authors = SurnameAndInitials(p.val)
            /\ (p.type = "list" /\ Len(p.val) = 1) =>
                  /\ authors = AuthorsOf(PyDict(p.val[1]))
                  /\ authors = SurnameAndInitials(p.val[1])

\* the author list of a record whose person field is a one-element list
C8_Witness ==
    /\ AuthorsComputed
    /\ LastRecord.fellesdata["person"] = PyList(<<AuthorA>>)
    /\ authors = <<"V", "i", "k", " ", "J", "O">>

\* a journal-article record with every field
HasAllFields(r) ==
    /\ WellFormedArticle(r)
    /\ Has(Article(r), "volum")
    /\ Has(Article(r), "artikkelnr")
    /\ Has(Article(r), "doi")

\* the names of a list of authors with ", " between them
RECURSIVE NamesJoined(_)
NamesJoined(l) ==
    IF l = <<>> THEN <<>>
    ELSE IF Len(l) = 1 THEN SurnameAndInitials(l[1])
    ELSE SurnameAndInitials(l[1]) \o <<",", " ">> \o NamesJoined(Tail(l))

\* the authors of r, whichever shape the person field has
AuthorsAsList(r) ==
    IF r.fellesdata["person"].type = "dict" THEN <<r.fellesdata["person"].val>>
    ELSE r.fellesdata["person"].val

\* the parts of the citation of r, in the order the citation has them
CitationParts(r) ==
    <<NamesJoined(AuthorsAsList(r)),
      <<"(">> \o r.fellesdata["ar"] \o <<")">>,
      <<" ">> \o r.fellesdata["tittel"] \o <<" ">>,
      EmOpen \o Article(r)["tidsskrift"]["navn"] \o EmClose,
      <<"<", "s", "t", "r", "o", "n", "g", ">", "(">> \o Article(r)["volum"] \o
          <<")", "<", "/", "s", "t", "r", "o", "n", "g", ">">>,
      <<" ">> \o Article(r)["artikkelnr"] \o <<" ">>,
      DoiPrefix \o Article(r)["doi"]>>

\* C10: the citation of a journal article with every field holds, in this
\* order and each once: the author list, the year in parentheses, the
\* title, the journal in <em>, the volume as <strong>(volume)</strong>, the
\* article number, and the DOI behind http://dx.doi.org/.
C10_PartsInFixedOrder ==
    (/\ Formatted
     /\ HasAllFields(LastRecord)
     /\ AuthorsAsList(LastRecord) # <<>>)
    => /\ InOrderFrom(LastCitation, CitationParts(LastRecord), 1)
       /\ \A k \in 1..Len(CitationParts(LastRecord)) :
             Cardinality(Occurrences(LastCitation, CitationParts(LastRecord)[k])) = 1

\* the citation of the record of the year 2010 with every field
C10_Witness ==
    /\ Formatted
    /\ LastRecord = Record(Key("ar", Year2010), BaseTitle, BasePerson, FullArticle)
    /\ Len(LastCitation) > 0

====
